---------------------------- MODULE Spec2Model ----------------------------
(***************************************************************************)
(* A model of caddy-lambda: a pool of persistent interpreter workers       *)
(* (worker.go), the dispatcher that picks a worker for a request           *)
(* (config.go, execWorker) and the pool's provisioning and cleanup.        *)
(*                                                                         *)
(* Text is modelled as a sequence of symbols.  The fixed tags of the pipe  *)
(* protocol ("CMD_OUTPUT_START=", ...) and the request identifiers are one *)
(* symbol each; everything else (digits, ";", body characters) is one      *)
(* symbol per character.  A line is such a sequence without its newline.   *)
(***************************************************************************)
EXTENDS Integers, Sequences, FiniteSets, TLC

(***************************************************************************)
(* Bounds of the model.                                                    *)
(***************************************************************************)
\* number of requests (goroutines calling invoke), each with its own rid
MaxCalls == 2
\* workers in the pool: Provision starts one worker and appends it
MaxWorkers == 1
\* the worker timeout, in ticks of the model's clock
Timeout == 1
\* lines the handlers print on their own, over all child processes
MaxNoise == 1
\* child processes that exit by themselves
MaxExits == 1
\* the busy-worker counter of execWorker is kept up to this value
AvailCap == 2

Calls == 1..MaxCalls

Min(a, b) == IF a < b THEN a ELSE b

(***************************************************************************)
(* strings                                                                 *)
(***************************************************************************)
START_TAG == "CMD_OUTPUT_START="
STATUS_TAG == "CMD_STATUS_CODE="
BODY_TAG == "CMD_OUTPUT_BODY="
END_TAG == "CMD_OUTPUT_END="

\* strings.HasPrefix
HasPrefix(s, prefix) ==
    /\ Len(s) >= Len(prefix)
    /\ SubSeq(s, 1, Len(prefix)) = prefix

\* strings.Contains
Contains(s, substr) ==
    \E k \in 0..(Len(s) - Len(substr)) : SubSeq(s, k + 1, k + Len(substr)) = substr

\* strings.ReplaceAll, for a non-empty old
RECURSIVE ReplaceAll(_, _, _)
ReplaceAll(s, old, new) ==
    IF s = <<>> THEN <<>>
    ELSE IF HasPrefix(s, old)
         THEN new \o ReplaceAll(SubSeq(s, Len(old) + 1, Len(s)), old, new)
         ELSE <<Head(s)>> \o ReplaceAll(Tail(s), old, new)

\* strings.Join
RECURSIVE Join(_, _)
Join(elems, sep) ==
    IF elems = <<>> THEN <<>>
    ELSE IF Len(elems) = 1 THEN elems[1]
         ELSE elems[1] \o sep \o Join(Tail(elems), sep)

Digits == <<"0", "1", "2", "3", "4", "5", "6", "7", "8", "9">>

IsDigit(ch) == \E d \in 1..10 : Digits[d] = ch

DigitVal(ch) == (CHOOSE d \in 1..10 : Digits[d] = ch) - 1

RECURSIVE DigitsVal(_, _)
DigitsVal(s, acc) ==
    IF s = <<>> THEN acc ELSE DigitsVal(Tail(s), 10 * acc + DigitVal(Head(s)))

\* strconv.Atoi: an optional sign and at least one digit, nothing else
Atoi(s) ==
    LET signed == s # <<>> /\ Head(s) \in {"+", "-"}
        ds == IF signed THEN Tail(s) ELSE s
    IN  IF ds = <<>> \/ \E k \in 1..Len(ds) : ~IsDigit(ds[k])
        THEN [n |-> 0, err |-> TRUE]
        ELSE [n |-> IF signed /\ Head(s) = "-" THEN 0 - DigitsVal(ds, 0)
                    ELSE DigitsVal(ds, 0),
              err |-> FALSE]

\* the request identifier of call c (data["request_id"])
RequestID(c) == "rid" \o ToString(c)


(***************************************************************************)
(* The decoding half of worker.handle.                                     *)
(***************************************************************************)
\* a parseStatusCode that reports no error: a text that is no integer gives 0
parseStatusCodeNoError(s) ==
    [n |-> Atoi(ReplaceAll(ReplaceAll(s, <<STATUS_TAG>>, <<>>), <<";">>, <<>>)).n,
     err |-> FALSE]

\* parseStatusCode
parseStatusCode(s) ==
    Atoi(ReplaceAll(ReplaceAll(s, <<STATUS_TAG>>, <<>>), <<";">>, <<>>))

\* the loop of worker.handle over the lines readPipe returned: recordingOn,
\* statusCode and stdoutOutput are the loop's variables
RECURSIVE DecodeLines(_, _, _, _, _)
DecodeLines(ls, requestID, recordingOn, statusCode, stdoutOutput) ==
    IF ls = <<>> THEN [statusCode |-> statusCode, stdoutOutput |-> stdoutOutput]
    ELSE
    LET line == Head(ls)
        rest == Tail(ls)
    IN  IF ~recordingOn
        THEN DecodeLines(rest, requestID,
                         HasPrefix(line, <<START_TAG>>)
                             /\ HasPrefix(line, <<START_TAG, requestID, ";">>),
                         statusCode, stdoutOutput)
        ELSE IF HasPrefix(line, <<STATUS_TAG>>)
        THEN LET code == parseStatusCode(line)
             IN  DecodeLines(rest, requestID, recordingOn,
                             IF code.err THEN statusCode ELSE code.n, stdoutOutput)
        ELSE IF HasPrefix(line, <<BODY_TAG>>)
        THEN DecodeLines(rest, requestID, recordingOn, statusCode,
                         Append(stdoutOutput, ReplaceAll(line, <<BODY_TAG>>, <<>>)))
        ELSE IF HasPrefix(line, <<END_TAG>>)
                /\ HasPrefix(line, <<END_TAG, requestID, ";">>)
        THEN DecodeLines(rest, requestID, FALSE, statusCode, stdoutOutput)
        ELSE DecodeLines(rest, requestID, recordingOn, statusCode,
                         Append(stdoutOutput, <<"Y">> \o line))

StatusRequestTimeout == [code |-> 408, body |-> <<"Request Timeout">>, err |-> FALSE]
StatusBadRequest == [code |-> 400, body |-> <<"Bad Request">>, err |-> FALSE]
StatusServiceUnavailable ==
    [code |-> 503, body |-> <<"Service Unavailable">>, err |-> FALSE]

\* worker.handle without its "if timedOut" branch: the decoded lines are
\* returned whether readPipe timed out or not
HandleResultPartial(ls, timedOut, requestID) ==
    LET d == DecodeLines(ls, requestID, FALSE, 200, <<>>)
    IN  [code |-> d.statusCode,
         body |-> Join(d.stdoutOutput, <<"\n">>),
         err |-> FALSE]

\* what worker.handle returns once readPipe has returned (lines, timedOut)
HandleResult(ls, timedOut, requestID) ==
    LET d == DecodeLines(ls, requestID, FALSE, 200, <<>>)
    IN  IF timedOut THEN StatusRequestTimeout
        ELSE [code |-> d.statusCode,
              body |-> Join(d.stdoutOutput, <<"\n">>),
              err |-> FALSE]

\* the stop word worker.handle hands to readPipe
StopWord == <<END_TAG>>

\* readPipe: whether a received line ends the read
StopsRead(line) == Contains(line, StopWord)

(***************************************************************************)
(* State.                                                                  *)
(*   workers  fex.workers: the worker structs, in pool order; stdin is the *)
(*            sequence of statements written to the worker's stdin         *)
(*   proc     the child process of each worker and its stdout pipe         *)
(*   call     one record per request: the position of its goroutine in     *)
(*            invoke / execWorker / worker.handle, and their locals        *)
(*            (idle is the time since readPipe last began to wait, elapsed *)
(*            the time since readPipe was entered, in ticks; req is the    *)
(*            request, data the event invoke built from it, written what   *)
(*            invoke wrote to the response, sent the statements of the     *)
(*            invocation handle has written so far)                        *)
(*   reader   the goroutine pipeListener starts for each call              *)
(*   cleanup  the position of FunctionExecutor.Cleanup, the workers whose  *)
(*            terminate returned an error to it, and whether Cleanup       *)
(*            returned an error                                            *)
(*   provisionErr  what the last call of FunctionExecutor.Provision        *)
(*            returned: "nil", or the error ("uri_filter" when the filter  *)
(*            did not compile, "worker" when the worker was not started);  *)
(*            "none" before the first call                                 *)
(***************************************************************************)
VARIABLES workers, proc, call, reader, cleanup, provisionErr

vars == <<workers, proc, call, reader, cleanup, provisionErr>>

\* the texts a handler may return as resp['status_code'] and resp['body']
StatusTexts == {<<"2", "0", "1">>}
Bodies == {<<"o", "k">>}
\* a line the handler prints by itself
NoiseLines == {<<"e", "v", "e", "n", "t">>}

\* fex.entrypointImport and fex.EntrypointHandler, the "function" of the
\* configuration
entrypointImport == "app.index"
EntrypointHandler == "lambda_handler"

\* fex.MaxWorkersCount, the "workers" of the configuration
MaxWorkersCount == 2

NoResult == [code |-> 0, body |-> <<>>, err |-> FALSE]

\* the http.ResponseWriter of a request: the status codes handed to
\* WriteHeader and the bodies handed to Write, in order
NoResponse == [status |-> <<>>, body |-> <<>>]

\* fex.URIFilter, a pattern without metacharacters, and the pattern Provision
\* compiles from it (Nil when the filter is empty)
Nil == <<>>
URIFilter == <<"/", "a">>

\* regexp.CompilePOSIX for the patterns of the model: a parenthesis that is
\* not closed is an error, a pattern without metacharacters is itself
CompilePOSIX(expr) ==
    IF Contains(expr, <<"(">>) /\ ~Contains(expr, <<")">>)
    THEN [p |-> Nil, err |-> TRUE]
    ELSE [p |-> expr, err |-> FALSE]

filterURIPattern == IF URIFilter # <<>> THEN CompilePOSIX(URIFilter).p ELSE Nil

\* the uri_filter Provision may be called with: the filter of the executor
\* that serves the requests, or one that does not compile
URIFilters == {URIFilter, <<"(">>}

\* regexp.MatchString for such a pattern: it occurs in the text
MatchString(pattern, text) == Contains(text, pattern)

\* the request URIs
RequestURIs == {<<"/", "a">>, <<"/", "b">>}

\* a request: req.RequestURI, req.Header and req.URL.Query(), the two maps
\* as functions from their keys to the lists of their values
Request(uri, header, query) ==
    [RequestURI |-> uri, Header |-> header, Query |-> query]

NoValues == [k \in {} |-> <<>>]
NoRequest == Request(<<>>, NoValues, NoValues)

\* the requests: alike but for their URIs
Requests ==
    {Request(uri, [k \in {"Accept"} |-> <<"a">>], NoValues) : uri \in RequestURIs}

\* requests with headers and query parameters of no, one and two values
ValueLists == {<<>>, <<"a">>, <<"a", "b">>}
HeaderKeys == {"Cookie", "Set-Cookie", "Accept"}
QueryKeys == {"q"}
Headers == UNION {[K -> ValueLists] : K \in SUBSET HeaderKeys}
Queries == UNION {[K -> ValueLists] : K \in SUBSET QueryKeys}
EventRequests == {Request(<<"/", "a">>, h, q) : h \in Headers, q \in Queries}

\* an entry that keeps the first value of a list of several
CollapseFirst(v) ==
    IF Len(v) >= 1
    THEN [kind |-> "string", val |-> v[1]]
    ELSE [kind |-> "list", val |-> v]

\* the value invoke stores for a key with the values v: v[0] when len(v) == 1,
\* v otherwise (an interface{} holding a string or a []string)
Collapse(v) ==
    IF Len(v) = 1
    THEN [kind |-> "string", val |-> v[1]]
    ELSE [kind |-> "list", val |-> v]

\* queryParams and reqHeaders of invoke
QueryParams(queryValues) ==
    [k \in DOMAIN queryValues |-> Collapse(queryValues[k])]

ReqHeaders(header) ==
    [k \in DOMAIN header \ {"Cookie", "Set-Cookie"} |-> Collapse(header[k])]

\* the event invoke builds for request c (of the other entries, copied from
\* the request as they are, request_uri stands for all)
Event(c, req) ==
    [request_id |-> RequestID(c),
     request_uri |-> req.RequestURI,
     headers |-> ReqHeaders(req.Header),
     query_params |-> QueryParams(req.Query)]

NoData ==
    [request_id |-> "", request_uri |-> <<>>, headers |-> NoValues,
     query_params |-> NoValues]

StatusInternalServerError ==
    [code |-> 500, body |-> <<"Internal Server Error">>, err |-> FALSE]

\* an invoke that writes 200 whatever execWorker returned
RespondOK(r) == [status |-> <<200>>, body |-> <<r.body>>]

\* invoke after execWorker has returned r: what it writes to the response
Respond(r) ==
    IF r.err
    THEN [status |-> <<StatusInternalServerError.code>>,
          body |-> <<StatusInternalServerError.body>>]
    ELSE [status |-> <<r.code>>, body |-> <<r.body>>]

Stmt(op, fn, arg) == [op |-> op, fn |-> fn, arg |-> arg]

\* the statements of the one-time bootstrap (worker.go:158-164)
ImportStmts(importedPath) ==
    <<Stmt("import_all", "", importedPath), Stmt("import", "", "json")>>

\* the statements of one invocation with the end marker printed before the
\* status code and the body
InvokeStmtsEndEarly(requestID) ==
    <<Stmt("call", "handler", requestID),
      Stmt("print_start", "", requestID),
      Stmt("print_end", "", requestID),
      Stmt("print_status", "", ""),
      Stmt("print_body", "", "")>>

\* the statements of one invocation (worker.go:175-184)
InvokeStmts(requestID) ==
    <<Stmt("call", "handler", requestID),
      Stmt("print_start", "", requestID),
      Stmt("print_status", "", ""),
      Stmt("print_body", "", ""),
      Stmt("print_end", "", requestID)>>

\* newWorker: a started process with its pipes, free and not terminated
NewWorkerValue(id) ==
    [ID |-> id, InUse |-> FALSE, Terminated |-> FALSE, importComplete |-> FALSE,
     mu |-> 0, stdin |-> <<>>]

NewProcValue ==
    [alive |-> TRUE, exited |-> FALSE, closed |-> FALSE, next |-> 1,
     resp |-> [status |-> <<>>, body |-> <<>>], pipe |-> <<>>, noise |-> 0]

Init ==
    /\ workers = <<>>
    /\ proc = <<>>
    /\ call = [c \in Calls |->
                 [pc |-> "idle", i |-> 0, availableWorkers |-> 0, lines |-> <<>>,
                  timedOut |-> FALSE, ret |-> NoResult, idle |-> 0, elapsed |-> 0,
                  written |-> NoResponse, req |-> NoRequest, data |-> NoData,
                  sent |-> 0]]
    /\ reader = [c \in Calls |-> [state |-> "none", buf |-> <<>>]]
    /\ cleanup = [pc |-> "idle", i |-> 0, failed |-> {}, err |-> FALSE]
    /\ provisionErr = "none"

(***************************************************************************)
(* FunctionExecutor.Provision: compiles the URI filter, starts one worker, *)
(* with identifier 0, and appends it to the pool; a filter that does not   *)
(* compile and a worker that cannot be started are errors.  Requests are   *)
(* served after provisioning.                                              *)
(***************************************************************************)
\* a Provision that appends the worker before it looks at the error of
\* newWorker
ProvisionKeepsWorker(n) ==
    /\ Len(workers) < n
    /\ \A c \in Calls : call[c].pc = "idle"
    /\ cleanup.pc = "idle"
    /\ \E filter \in URIFilters, started \in BOOLEAN :
          IF filter # <<>> /\ CompilePOSIX(filter).err
          THEN /\ provisionErr' = "uri_filter"
               /\ UNCHANGED <<workers, proc>>
          ELSE /\ workers' = Append(workers, NewWorkerValue(0))
               /\ proc' = Append(proc, [NewProcValue EXCEPT !.alive = started])
               /\ provisionErr' = IF started THEN "nil" ELSE "worker"
    /\ UNCHANGED <<call, reader, cleanup>>

ProvisionUpTo(n) ==
    /\ Len(workers) < n
    /\ \A c \in Calls : call[c].pc = "idle"
    /\ cleanup.pc = "idle"
    /\ \E filter \in URIFilters, started \in BOOLEAN :
          IF filter # <<>> /\ CompilePOSIX(filter).err
          THEN /\ provisionErr' = "uri_filter"
               /\ UNCHANGED <<workers, proc>>
          ELSE IF ~started
          THEN /\ provisionErr' = "worker"
               /\ UNCHANGED <<workers, proc>>
          ELSE /\ workers' = Append(workers, NewWorkerValue(0))
               /\ proc' = Append(proc, NewProcValue)
               /\ provisionErr' = "nil"
    /\ UNCHANGED <<call, reader, cleanup>>

Provision == ProvisionUpTo(MaxWorkers)

(***************************************************************************)
(* FunctionExecutor.invoke and execWorker.                                 *)
(***************************************************************************)
\* an invoke that answers 503 to a request whose URI the filter does not
\* match
InvokeFilterResponds(c) ==
    /\ call[c].pc = "idle"
    /\ c > 1 => call[c - 1].pc # "idle"
    /\ \E req \in Requests :
          IF filterURIPattern # Nil
                /\ ~MatchString(filterURIPattern, req.RequestURI)
          THEN call' = [call EXCEPT ![c].pc = "skipped",
                           ![c].written = [status |-> <<503>>,
                                           body |-> <<<<"Service Unavailable">>>>]]
          ELSE call' = [call EXCEPT ![c].pc = "scan", ![c].i = 1,
                                    ![c].availableWorkers = 0,
                                    ![c].req = req,
                                    ![c].data = Event(c, req)]
    /\ UNCHANGED <<workers, proc, reader, cleanup, provisionErr>>

\* invoke, for a request out of requests: a request whose URI the filter
\* does not match is left alone; otherwise invoke builds the event and enters
\* execWorker: availableWorkers := 0.  The requests arrive in the order of
\* their numbers.
InvokeRequest(c, requests) ==
    /\ call[c].pc = "idle"
    /\ c > 1 => call[c - 1].pc # "idle"
    /\ \E req \in requests :
          IF filterURIPattern # Nil
                /\ ~MatchString(filterURIPattern, req.RequestURI)
          THEN call' = [call EXCEPT ![c].pc = "skipped"]
          ELSE call' = [call EXCEPT ![c].pc = "scan", ![c].i = 1,
                                    ![c].availableWorkers = 0,
                                    ![c].req = req,
                                    ![c].data = Event(c, req)]
    /\ UNCHANGED <<workers, proc, reader, cleanup, provisionErr>>

Invoke(c) == InvokeRequest(c, Requests)

\* the range loop without its "if w.Terminated" branch
ScanWorkerNoTerminated(c) ==
    /\ call[c].pc = "scan"
    /\ call[c].i <= Len(workers)
    /\ LET w == workers[call[c].i]
       IN  IF w.InUse
           THEN call' = [call EXCEPT ![c].i = @ + 1,
                            ![c].availableWorkers = Min(@ + 1, AvailCap)]
           ELSE call' = [call EXCEPT ![c].pc = "lock"]
    /\ UNCHANGED <<workers, proc, reader, cleanup, provisionErr>>

\* the range loop without its "if w.InUse" branch
ScanWorkerNoInUse(c) ==
    /\ call[c].pc = "scan"
    /\ call[c].i <= Len(workers)
    /\ LET w == workers[call[c].i]
       IN  IF w.Terminated
           THEN call' = [call EXCEPT ![c].i = @ + 1]
           ELSE call' = [call EXCEPT ![c].pc = "lock"]
    /\ UNCHANGED <<workers, proc, reader, cleanup, provisionErr>>

\* one iteration of the range loop over fex.workers
ScanWorker(c) ==
    /\ call[c].pc = "scan"
    /\ call[c].i <= Len(workers)
    /\ LET w == workers[call[c].i]
       IN  IF w.Terminated
           THEN call' = [call EXCEPT ![c].i = @ + 1]
           ELSE IF w.InUse
           THEN call' = [call EXCEPT ![c].i = @ + 1,
                            ![c].availableWorkers = Min(@ + 1, AvailCap)]
           ELSE call' = [call EXCEPT ![c].pc = "lock"]
    /\ UNCHANGED <<workers, proc, reader, cleanup, provisionErr>>

\* after the range loop: sleep 100ms, or leave with 503, which invoke writes
\* to the response
EndScan(c) ==
    /\ call[c].pc = "scan"
    /\ call[c].i > Len(workers)
    /\ IF call[c].availableWorkers < 1
       THEN call' = [call EXCEPT ![c].pc = "done",
                                 ![c].ret = StatusServiceUnavailable,
                                 ![c].written = Respond(StatusServiceUnavailable)]
       ELSE call' = [call EXCEPT ![c].pc = "sleep"]
    /\ UNCHANGED <<workers, proc, reader, cleanup, provisionErr>>

\* an execWorker that gives up after its sleep instead of scanning again
WakeGiveUp(c) ==
    /\ call[c].pc = "sleep"
    /\ call' = [call EXCEPT ![c].pc = "done",
                            ![c].ret = StatusServiceUnavailable,
                            ![c].written = Respond(StatusServiceUnavailable)]
    /\ UNCHANGED <<workers, proc, reader, cleanup, provisionErr>>

\* time.Sleep returns: the next pass of the outer loop
Wake(c) ==
    /\ call[c].pc = "sleep"
    /\ call' = [call EXCEPT ![c].pc = "scan", ![c].i = 1]
    /\ UNCHANGED <<workers, proc, reader, cleanup, provisionErr>>

(***************************************************************************)
(* worker.handle, for the call c that selected worker call[c].i.           *)
(***************************************************************************)
Reading(c) == call[c].pc = "reading"

\* worker.handle entered without waiting for the mutex
HandleLockNoWait(c) ==
    /\ call[c].pc = "lock"
    /\ workers' = [workers EXCEPT ![call[c].i].mu = c]
    /\ call' = [call EXCEPT ![c].pc = "locked"]
    /\ UNCHANGED <<proc, reader, cleanup, provisionErr>>

\* w.mu.Lock()
HandleLock(c) ==
    /\ call[c].pc = "lock"
    /\ workers[call[c].i].mu = 0
    /\ workers' = [workers EXCEPT ![call[c].i].mu = c]
    /\ call' = [call EXCEPT ![c].pc = "locked"]
    /\ UNCHANGED <<proc, reader, cleanup, provisionErr>>

\* w.InUse = true
HandleSetInUse(c) ==
    /\ call[c].pc = "locked"
    /\ workers' = [workers EXCEPT ![call[c].i].InUse = TRUE]
    /\ call' = [call EXCEPT ![c].pc = "write"]
    /\ UNCHANGED <<proc, reader, cleanup, provisionErr>>

\* the bootstrap without the importComplete test
BootstrapAlways(w, importedPath) == ImportStmts(importedPath)

\* the statements handle writes before anything else when the bootstrap
\* has not been done
Bootstrap(w, importedPath) ==
    IF ~w.importComplete THEN ImportStmts(importedPath) ELSE <<>>

\* the bootstrap, json.Marshal, pipeListener and the writes to stdin; data is
\* the event, of which the model keeps whether it can be serialized
HandleWrite(c) ==
    /\ call[c].pc = "write"
    /\ LET k == call[c].i
           boot == Bootstrap(workers[k], entrypointImport)
       IN  \E marshalErr \in BOOLEAN :
              IF marshalErr
              THEN /\ workers' = [workers EXCEPT ![k].stdin = @ \o boot,
                                                 ![k].importComplete = TRUE]
                   /\ call' = [call EXCEPT ![c].pc = "unlock",
                                           ![c].ret = StatusBadRequest]
                   /\ UNCHANGED reader
              ELSE /\ workers' = [workers EXCEPT
                          ![k].stdin = @ \o boot \o InvokeStmts(RequestID(c)),
                          ![k].importComplete = TRUE]
                   /\ reader' = [reader EXCEPT ![c] = [state |-> "scan", buf |-> <<>>]]
                   /\ call' = [call EXCEPT ![c].pc = "reading", ![c].lines = <<>>,
                                           ![c].idle = 0, ![c].elapsed = 0]
    /\ UNCHANGED <<proc, cleanup, provisionErr>>

\* the same part of handle, one write at a time: the bootstrap; then
\* json.Marshal, pipeListener and the first statement; then each of the other
\* statements; then handle enters readPipe.  call[c].sent is the number of
\* statements of the invocation written so far
HandleWriteStep(c) ==
    /\ call[c].pc = "write"
    /\ LET k == call[c].i
           boot == Bootstrap(workers[k], entrypointImport)
           stmts == InvokeStmts(RequestID(c))
       IN  IF boot # <<>>
           THEN /\ workers' = [workers EXCEPT ![k].stdin = @ \o boot,
                                              ![k].importComplete = TRUE]
                /\ UNCHANGED <<call, reader>>
           ELSE IF call[c].sent = 0
           THEN \E marshalErr \in BOOLEAN :
                   IF marshalErr
                   THEN /\ call' = [call EXCEPT ![c].pc = "unlock",
                                                ![c].ret = StatusBadRequest]
                        /\ UNCHANGED <<workers, reader>>
                   ELSE /\ reader' = [reader EXCEPT
                                         ![c] = [state |-> "scan", buf |-> <<>>]]
                        /\ workers' = [workers EXCEPT
                                          ![k].stdin = Append(@, stmts[1])]
                        /\ call' = [call EXCEPT ![c].sent = 1]
           ELSE IF call[c].sent < Len(stmts)
           THEN /\ workers' = [workers EXCEPT
                                  ![k].stdin = Append(@, stmts[call[c].sent + 1])]
                /\ call' = [call EXCEPT ![c].sent = @ + 1]
                /\ UNCHANGED reader
           ELSE /\ call' = [call EXCEPT ![c].pc = "reading", ![c].lines = <<>>,
                                        ![c].idle = 0, ![c].elapsed = 0,
                                        ![c].sent = 0]
                /\ UNCHANGED <<workers, reader>>
    /\ UNCHANGED <<proc, cleanup, provisionErr>>

\* readPipe returns (ls, timedOut); handle decodes and reaches its return
ReadPipeReturns(c, ls, timedOut) ==
    call' = [call EXCEPT ![c].pc = "unlock", ![c].lines = ls,
                         ![c].timedOut = timedOut,
                         ![c].ret = HandleResult(ls, timedOut, RequestID(c))]

\* readPipe: case line, ok := <-ch with ok true
HandleRecv(c) ==
    /\ Reading(c)
    /\ reader[c].buf # <<>>
    /\ LET line == Head(reader[c].buf)
           ls == Append(call[c].lines, line)
       IN  IF StopsRead(line)
           THEN ReadPipeReturns(c, ls, FALSE)
           ELSE call' = [call EXCEPT ![c].lines = ls, ![c].idle = 0]
    /\ reader' = [reader EXCEPT ![c].buf = Tail(@)]
    /\ UNCHANGED <<workers, proc, cleanup, provisionErr>>

\* readPipe: case line, ok := <-ch with ok false (the channel is closed)
HandleRecvClosed(c) ==
    /\ Reading(c)
    /\ reader[c].state = "closed"
    /\ reader[c].buf = <<>>
    /\ ReadPipeReturns(c, call[c].lines, FALSE)
    /\ UNCHANGED <<workers, proc, reader, cleanup, provisionErr>>

\* readPipe: case <-time.After(timeout)
HandleTimeout(c) ==
    /\ Reading(c)
    /\ call[c].idle >= Timeout
    /\ ReadPipeReturns(c, call[c].lines, TRUE)
    /\ UNCHANGED <<workers, proc, reader, cleanup, provisionErr>>

\* the deferred function, first statement: w.mu.Unlock()
HandleUnlock(c) ==
    /\ call[c].pc = "unlock"
    /\ workers' = [workers EXCEPT ![call[c].i].mu = 0]
    /\ call' = [call EXCEPT ![c].pc = "clear"]
    /\ UNCHANGED <<proc, reader, cleanup, provisionErr>>

\* a return of worker.handle that leaves InUse as it is
HandleReturnInUse(c) ==
    /\ call[c].pc = "clear"
    /\ call' = [call EXCEPT ![c].pc = "done", ![c].lines = <<>>,
                            ![c].timedOut = FALSE, ![c].idle = 0,
                            ![c].elapsed = 0,
                            ![c].written = Respond(call[c].ret)]
    /\ UNCHANGED <<workers, proc, reader, cleanup, provisionErr>>

\* a return of worker.handle that clears the terminated flag with the busy
\* flag
HandleClearFlags(c) ==
    /\ call[c].pc = "clear"
    /\ workers' = [workers EXCEPT ![call[c].i].InUse = FALSE,
                                  ![call[c].i].Terminated = FALSE]
    /\ call' = [call EXCEPT ![c].pc = "done", ![c].lines = <<>>,
                            ![c].timedOut = FALSE, ![c].idle = 0,
                            ![c].elapsed = 0,
                            ![c].written = Respond(call[c].ret)]
    /\ UNCHANGED <<proc, reader, cleanup, provisionErr>>

\* the deferred function, second statement: w.InUse = false; handle returns
\* (its locals are gone), execWorker returns its result and invoke writes it
\* to the response
HandleClearInUse(c) ==
    /\ call[c].pc = "clear"
    /\ workers' = [workers EXCEPT ![call[c].i].InUse = FALSE]
    /\ call' = [call EXCEPT ![c].pc = "done", ![c].lines = <<>>,
                            ![c].timedOut = FALSE, ![c].idle = 0,
                            ![c].elapsed = 0,
                            ![c].written = Respond(call[c].ret)]
    /\ UNCHANGED <<proc, reader, cleanup, provisionErr>>

\* the clock: a tick of time passes for every call waiting in readPipe; the
\* timer of a select fires at the latest when its timeout has passed
Tick ==
    /\ \E c \in Calls : Reading(c)
    /\ \A c \in Calls : Reading(c) => call[c].idle < Timeout
    /\ call' = [c \in Calls |->
                  IF Reading(c)
                  THEN [call[c] EXCEPT !.idle = @ + 1,
                                       !.elapsed = Min(@ + 1, Timeout + 1)]
                  ELSE call[c]]
    /\ UNCHANGED <<workers, proc, reader, cleanup, provisionErr>>

(***************************************************************************)
(* pipeListener: the goroutine of call c scans the stdout of its worker.   *)
(***************************************************************************)
\* scanner.Scan reads from the pipe: read(2) returns what is waiting in it
\* (the lines are short of the scanner's buffer), and the scanner hands out
\* the lines one by one
ReaderScan(c) ==
    /\ reader[c].state = "scan"
    /\ reader[c].buf = <<>>
    /\ LET k == call[c].i
       IN  /\ ~proc[k].closed
           /\ proc[k].pipe # <<>>
           /\ reader' = [reader EXCEPT ![c].buf = proc[k].pipe]
           /\ proc' = [proc EXCEPT ![k].pipe = <<>>]
    /\ UNCHANGED <<workers, call, cleanup, provisionErr>>

\* scanner.Scan returns false (end of file, or the pipe was closed by Wait):
\* the deferred close(ch)
ReaderClose(c) ==
    /\ reader[c].state = "scan"
    /\ reader[c].buf = <<>>
    /\ LET k == call[c].i
       IN  proc[k].closed \/ (~proc[k].alive /\ proc[k].pipe = <<>>)
    /\ reader' = [reader EXCEPT ![c].state = "closed"]
    /\ UNCHANGED <<workers, proc, call, cleanup, provisionErr>>

(***************************************************************************)
(* The child process of worker k: "python -u -q -i" executes the           *)
(* statements it reads from its stdin and writes lines to its stdout.  A   *)
(* handler call takes as long as the handler likes; the prints that follow *)
(* it are executed without waiting, and their lines are in the pipe        *)
(* together.                                                               *)
(***************************************************************************)
\* the line a print statement writes, given the resp the handler returned
PrintedLine(stmt, resp) ==
    CASE stmt.op = "print_start" -> <<START_TAG, stmt.arg, ";">>
      [] stmt.op = "print_status" -> <<STATUS_TAG>> \o resp.status \o <<";">>
      [] stmt.op = "print_body" -> <<BODY_TAG>> \o resp.body
      [] stmt.op = "print_end" -> <<END_TAG, stmt.arg, ";">>

IsPrint(stmt) ==
    stmt.op \in {"print_start", "print_status", "print_body", "print_end"}

\* the number of print statements in a row from statement n of stdin on
RECURSIVE PrintRun(_, _)
PrintRun(stdin, n) ==
    IF n <= Len(stdin) /\ IsPrint(stdin[n]) THEN 1 + PrintRun(stdin, n + 1) ELSE 0

RECURSIVE SumOver(_, _)
SumOver(f, n) == IF n = 0 THEN 0 ELSE f[n] + SumOver(f, n - 1)

\* lines printed by handlers on their own, and processes that have exited
\* by themselves, so far
NoiseCount == SumOver([k \in 1..Len(proc) |-> proc[k].noise], Len(proc))
ExitCount ==
    SumOver([k \in 1..Len(proc) |-> IF proc[k].exited THEN 1 ELSE 0], Len(proc))

\* the interpreter executes the next statement of its stdin, or the prints
\* that are next; texts are the status codes the handler may return
ChildRun(k, texts) ==
    /\ proc[k].alive
    /\ proc[k].next <= Len(workers[k].stdin)
    /\ LET stmt == workers[k].stdin[proc[k].next]
           n == PrintRun(workers[k].stdin, proc[k].next)
       IN  CASE stmt.op \in {"import_all", "import"} ->
                  proc' = [proc EXCEPT ![k].next = @ + 1]
             [] stmt.op = "call" ->
                  \E st \in texts, b \in Bodies :
                     proc' = [proc EXCEPT ![k].next = @ + 1,
                                          ![k].resp = [status |-> st, body |-> b]]
             [] OTHER ->
                  proc' = [proc EXCEPT
                     ![k].next = @ + n,
                     ![k].pipe = @ \o [j \in 1..n |->
                         PrintedLine(workers[k].stdin[proc[k].next + j - 1],
                                     proc[k].resp)]]
    /\ UNCHANGED <<workers, call, reader, cleanup, provisionErr>>

ChildExec(k) == ChildRun(k, StatusTexts)

\* the handler, while it runs, prints a line of its own
ChildNoise(k) ==
    /\ proc[k].alive
    /\ proc[k].next <= Len(workers[k].stdin)
    /\ workers[k].stdin[proc[k].next].op = "call"
    /\ NoiseCount < MaxNoise
    /\ \E line \in NoiseLines :
          proc' = [proc EXCEPT ![k].pipe = Append(@, line), ![k].noise = @ + 1]
    /\ UNCHANGED <<workers, call, reader, cleanup, provisionErr>>

\* the process exits by itself while the handler runs
ChildExit(k) ==
    /\ proc[k].alive
    /\ proc[k].next <= Len(workers[k].stdin)
    /\ workers[k].stdin[proc[k].next].op = "call"
    /\ ExitCount < MaxExits
    /\ proc' = [proc EXCEPT ![k].alive = FALSE, ![k].exited = TRUE]
    /\ UNCHANGED <<workers, call, reader, cleanup, provisionErr>>

(***************************************************************************)
(* FunctionExecutor.Cleanup: worker.terminate on every worker in turn.     *)
(***************************************************************************)
\* a Cleanup that returns the error of the first terminate that fails
CleanupAbort(k, failed) ==
    IF failed # {}
    THEN [pc |-> "done", i |-> k, failed |-> failed, err |-> TRUE]
    ELSE IF k < Len(workers)
    THEN [pc |-> "flag", i |-> k + 1, failed |-> failed, err |-> FALSE]
    ELSE [pc |-> "done", i |-> k, failed |-> failed, err |-> FALSE]

\* the range loop of Cleanup moves on to the next worker, or returns nil
CleanupNext(k, failed) ==
    IF k < Len(workers)
    THEN [pc |-> "flag", i |-> k + 1, failed |-> failed, err |-> FALSE]
    ELSE [pc |-> "done", i |-> k, failed |-> failed, err |-> FALSE]

CleanupStart ==
    /\ cleanup.pc = "idle"
    /\ cleanup' = CleanupNext(0, {})
    /\ UNCHANGED <<workers, proc, call, reader, provisionErr>>

\* a terminate that goes to the kill without setting the flag
TerminateNoFlag ==
    /\ cleanup.pc = "flag"
    /\ cleanup' = [cleanup EXCEPT !.pc = "kill"]
    /\ UNCHANGED <<workers, proc, call, reader, provisionErr>>

\* terminate: w.Terminated = true
TerminateFlag ==
    /\ cleanup.pc = "flag"
    /\ workers' = [workers EXCEPT ![cleanup.i].Terminated = TRUE]
    /\ cleanup' = [cleanup EXCEPT !.pc = "kill"]
    /\ UNCHANGED <<proc, call, reader, provisionErr>>

\* terminate: w.Cmd.Process.Kill(); the process has not been waited for, so
\* the signal is sent without an error (it changes nothing for a process that
\* has exited already)
TerminateKill ==
    /\ cleanup.pc = "kill"
    /\ cleanup' = [cleanup EXCEPT !.pc = "wait"]
    /\ proc' = [proc EXCEPT ![cleanup.i].alive = FALSE]
    /\ UNCHANGED <<workers, call, reader, provisionErr>>

\* terminate: w.Cmd.Wait(), which closes the pipes of the process.  Wait
\* reports how the process ended: "signal: killed" is no error to terminate,
\* and neither is the exit status 0; a process that had exited by itself with
\* another status makes terminate return the error, which Cleanup logs
\* before it goes on
TerminateWait ==
    /\ cleanup.pc = "wait"
    /\ proc' = [proc EXCEPT ![cleanup.i].closed = TRUE, ![cleanup.i].pipe = <<>>]
    /\ \E waitErr \in (IF proc[cleanup.i].exited THEN BOOLEAN ELSE {FALSE}) :
          cleanup' = CleanupNext(cleanup.i,
                                 IF waitErr THEN cleanup.failed \cup {cleanup.i}
                                 ELSE cleanup.failed)
    /\ UNCHANGED <<workers, call, reader, provisionErr>>

Next ==
    \/ Provision
    \/ \E c \in Calls : Invoke(c)
    \/ \E c \in Calls : ScanWorker(c)
    \/ \E c \in Calls : EndScan(c)
    \/ \E c \in Calls : Wake(c)
    \/ \E c \in Calls : HandleLock(c)
    \/ \E c \in Calls : HandleSetInUse(c)
    \/ \E c \in Calls : HandleWrite(c)
    \/ \E c \in Calls : HandleRecv(c)
    \/ \E c \in Calls : HandleRecvClosed(c)
    \/ \E c \in Calls : HandleTimeout(c)
    \/ \E c \in Calls : HandleUnlock(c)
    \/ \E c \in Calls : HandleClearInUse(c)
    \/ Tick
    \/ \E c \in Calls : ReaderScan(c)
    \/ \E c \in Calls : ReaderClose(c)
    \/ \E k \in 1..Len(workers) : ChildExec(k)
    \/ \E k \in 1..Len(workers) : ChildNoise(k)
    \/ \E k \in 1..Len(workers) : ChildExit(k)
    \/ CleanupStart
    \/ TerminateFlag
    \/ TerminateKill
    \/ TerminateWait

Spec == Init /\ [][Next]_vars

(***************************************************************************)
(* Properties.                                                             *)
(***************************************************************************)
AllTerminated == \A k \in 1..Len(workers) : workers[k].Terminated

\* call c is between w.mu.Lock() and w.mu.Unlock() of worker k
HoldsLock(c, k) ==
    /\ call[c].i = k
    /\ call[c].pc \in {"locked", "write", "reading", "unlock"}

\* call c is inside worker.handle of worker k, waiting for the lock included
InHandle(c, k) ==
    /\ call[c].i = k
    /\ call[c].pc \in {"lock", "locked", "write", "reading", "unlock", "clear"}

\* readPipe has returned to call c and handle has not returned yet
ReadPipeReturned(c) ==
    /\ call[c].pc \in {"unlock", "clear"}
    /\ reader[c].state # "none"

\* the position in the stdin of worker k of the handler statement of call c,
\* or 0
CallPos(k, c) ==
    LET S == {n \in 1..Len(workers[k].stdin) :
                 workers[k].stdin[n] = Stmt("call", "handler", RequestID(c))}
    IN  IF S = {} THEN 0 ELSE CHOOSE n \in S : TRUE

StartLine(c) == <<START_TAG, RequestID(c), ";">>
EndLine(c) == <<END_TAG, RequestID(c), ";">>

\* C1: at most one Handle call at a time is between acquiring and releasing
\* the lock of a worker
C1_MutualExclusion ==
    \A k \in 1..Len(workers) :
        Cardinality({c \in Calls : HoldsLock(c, k)}) <= 1

\* a call reads the output of a worker while another waits for its lock
C1_Witness ==
    \E k \in 1..Len(workers) : \E c, d \in Calls :
        /\ c # d
        /\ HoldsLock(c, k) /\ call[c].pc = "reading"
        /\ call[d].i = k /\ call[d].pc = "lock"

\* C2: no line written for an invocation is consumed by the reader of an
\* invocation handled earlier on the same worker
C2_NoLineToEarlierReader ==
    \A k \in 1..Len(workers) : \A c, d \in Calls :
        (0 < CallPos(k, c) /\ CallPos(k, c) < CallPos(k, d))
            => \A j \in 1..Len(reader[c].buf) :
                  ~Contains(reader[c].buf[j], <<RequestID(d)>>)

\* the stream holds, from line p on, the whole reply to call c
ReplyAt(stream, p, c) ==
    /\ p + 3 <= Len(stream)
    /\ stream[p] = StartLine(c)
    /\ HasPrefix(stream[p + 1], <<STATUS_TAG>>)
    /\ ~parseStatusCode(stream[p + 1]).err
    /\ HasPrefix(stream[p + 2], <<BODY_TAG>>)
    /\ stream[p + 3] = EndLine(c)

\* the status code and the body of the reply that starts at line p
Embedded(stream, p) ==
    [code |-> Atoi(SubSeq(stream[p + 1], 2, Len(stream[p + 1]) - 1)).n,
     body |-> Tail(stream[p + 2]),
     err |-> FALSE]

\* C3: when the stream handed to a call (the lines it received and the lines
\* its reader holds for it) contains the whole reply to its request, and
\* the read did not time out, the call returns the status code and the body
\* of that reply, whatever comes before the start marker
C3_DecodesReply ==
    \A c \in Calls :
        (ReadPipeReturned(c) /\ ~call[c].timedOut)
            => LET stream == call[c].lines \o reader[c].buf
               IN  \A p \in 1..Len(stream) :
                      ReplyAt(stream, p, c) => call[c].ret = Embedded(stream, p)

\* C4: a call whose read ended without the end marker of its own request
\* returns the timeout outcome
C4_TimeoutWithoutEnd ==
    \A c \in Calls :
        (/\ ReadPipeReturned(c)
         /\ \A j \in 1..Len(call[c].lines) :
               ~HasPrefix(call[c].lines[j], <<END_TAG, RequestID(c), ";">>))
            => call[c].ret = StatusRequestTimeout

\* C5: when the timeout fired in readPipe, handle returns 408 "Request
\* Timeout" and no error, whatever lines were collected
C5_TimeoutResult ==
    \A c \in Calls :
        (ReadPipeReturned(c) /\ call[c].timedOut)
            => call[c].ret = StatusRequestTimeout

\* the timeout fired after lines had been collected
C5_Witness ==
    \E c \in Calls :
        /\ ReadPipeReturned(c) /\ call[c].timedOut
        /\ call[c].lines # <<>>

\* C6: a call is in readPipe for no longer than the timeout
C6_BoundedByTimeout ==
    \A c \in Calls : Reading(c) => call[c].elapsed <= Timeout

\* C7: whenever no Handle call is in progress on a worker, its lock is free
\* and its busy flag is false
C7_ReleasedAfterHandle ==
    \A k \in 1..Len(workers) :
        (\A c \in Calls : ~InHandle(c, k))
            => (workers[k].mu = 0 /\ ~workers[k].InUse)

\* Handle calls have returned from a worker, one after a timeout and one
\* after a serialization failure, and none is in progress
C7_Witness ==
    \E k \in 1..Len(workers) : \E c, d \in Calls :
        /\ \A e \in Calls : ~InHandle(e, k)
        /\ call[c].pc = "done" /\ call[c].i = k
        /\ call[c].ret = StatusRequestTimeout
        /\ call[d].pc = "done" /\ call[d].i = k
        /\ call[d].ret = StatusBadRequest

\* the positions of the import statements in a stdin
ImportPositions(stdin) ==
    {n \in 1..Len(stdin) : stdin[n].op \in {"import_all", "import"}}

\* C8: the import statements are written to a worker once, as the first
\* statements it is ever sent
C8_BootstrapOnce ==
    \A k \in 1..Len(workers) :
        LET stdin == workers[k].stdin
        IN  /\ workers[k].importComplete <=> stdin # <<>>
            /\ stdin # <<>> =>
                  /\ Len(stdin) >= 2
                  /\ SubSeq(stdin, 1, 2) = ImportStmts(entrypointImport)
                  /\ ImportPositions(stdin) = {1, 2}

\* a worker has been sent the handler statements of two calls
C8_Witness ==
    \E k \in 1..Len(workers) : \A c \in Calls : CallPos(k, c) > 0

\* call c is in the scan it began execWorker with and has counted no busy
\* worker
InFirstScan(c) ==
    /\ call[c].pc = "scan"
    /\ call[c].availableWorkers = 0

\* C9: execWorker begins with a scan that has counted no busy worker, and
\* while every worker is terminated (or there is none) a call in such a scan
\* stays in it, without sleeping or entering handle, until it returns 503
\* "Service Unavailable"
C9_AllTerminated503 ==
    [][\A c \in Calls :
          /\ (call[c].pc = "idle" /\ call'[c].pc \notin {"idle", "skipped"})
                => InFirstScan(c)'
          /\ (AllTerminated /\ InFirstScan(c))
                => \/ InFirstScan(c)'
                   \/ /\ call'[c].pc = "done"
                      /\ call'[c].ret = StatusServiceUnavailable]_vars

\* a call has returned 503 from a pool whose workers are all terminated
C9_Witness ==
    \E c \in Calls :
        /\ Len(workers) > 0 /\ AllTerminated
        /\ call[c].pc = "done"
        /\ call[c].ret = StatusServiceUnavailable

(***************************************************************************)
(* The specification with fairness: every goroutine that can take a step   *)
(* takes one, time passes, and Cleanup, once called, runs to its end.      *)
(* Requests need not arrive, Cleanup need not be called, and a handler     *)
(* need not return.                                                        *)
(***************************************************************************)
CallStep(c) ==
    \/ ScanWorker(c) \/ EndScan(c) \/ Wake(c)
    \/ HandleLock(c) \/ HandleSetInUse(c) \/ HandleWrite(c)
    \/ HandleRecv(c) \/ HandleRecvClosed(c) \/ HandleTimeout(c)
    \/ HandleUnlock(c) \/ HandleClearInUse(c)

ReaderStep(c) == ReaderScan(c) \/ ReaderClose(c)

TerminateStep == TerminateFlag \/ TerminateKill \/ TerminateWait

Fairness ==
    /\ \A c \in Calls : WF_vars(CallStep(c))
    /\ \A c \in Calls : WF_vars(ReaderStep(c))
    /\ WF_vars(Tick)
    /\ WF_vars(TerminateStep)

FairSpec == Init /\ [][Next]_vars /\ Fairness

\* C10: a call of execWorker that is scanning or sleeping when every worker
\* is terminated returns
C10_ReturnsWhenAllTerminated ==
    \A c \in Calls :
        (AllTerminated /\ call[c].pc \in {"scan", "sleep"})
            ~> (call[c].pc = "done")

(***************************************************************************)
(* A pool of several workers: the executor provisioned more than once.     *)
(* The handlers print no lines of their own here.                          *)
(***************************************************************************)
\* the workers of the larger pool
MaxPool == 2

ProvisionPool == ProvisionUpTo(MaxPool)

PoolNext ==
    \/ ProvisionPool
    \/ \E c \in Calls : Invoke(c)
    \/ \E c \in Calls : ScanWorker(c)
    \/ \E c \in Calls : EndScan(c)
    \/ \E c \in Calls : Wake(c)
    \/ \E c \in Calls : HandleLock(c)
    \/ \E c \in Calls : HandleSetInUse(c)
    \/ \E c \in Calls : HandleWrite(c)
    \/ \E c \in Calls : HandleRecv(c)
    \/ \E c \in Calls : HandleRecvClosed(c)
    \/ \E c \in Calls : HandleTimeout(c)
    \/ \E c \in Calls : HandleUnlock(c)
    \/ \E c \in Calls : HandleClearInUse(c)
    \/ Tick
    \/ \E c \in Calls : ReaderScan(c)
    \/ \E c \in Calls : ReaderClose(c)
    \/ \E k \in 1..Len(workers) : ChildExec(k)
    \/ \E k \in 1..Len(workers) : ChildExit(k)
    \/ CleanupStart
    \/ TerminateFlag
    \/ TerminateKill
    \/ TerminateWait

PoolSpec == Init /\ [][PoolNext]_vars

\* worker w is neither terminated nor busy
Free(w) == ~w.Terminated /\ ~w.InUse

\* C11: every scan of execWorker starts at the first worker of the pool and
\* passes over a worker only when it finds it terminated or busy; it enters
\* handle on the worker it stands at, and only when it finds it neither
\* terminated nor busy; what handle returns is what execWorker returns
C11_DelegatesToFirstFree ==
    [][\A c \in Calls :
          /\ (call[c].pc # "scan" /\ call'[c].pc = "scan") => call'[c].i = 1
          /\ (call[c].pc = "scan" /\ call'[c].pc = "scan"
                 /\ call'[c].i # call[c].i)
                => /\ call'[c].i = call[c].i + 1
                   /\ ~Free(workers[call[c].i])
          /\ (call[c].pc = "scan" /\ call'[c].pc = "lock")
                => /\ call'[c].i = call[c].i
                   /\ Free(workers[call[c].i])
          /\ call'[c].pc = "lock" => call[c].pc \in {"scan", "lock"}
          /\ call[c].pc \in {"unlock", "clear"}
                => /\ call'[c].ret = call[c].ret
                   /\ call'[c].i = call[c].i
                   /\ call'[c].pc \in {"unlock", "clear", "done"}]_vars

\* a call enters handle on the second worker while the first is busy
C11_Witness ==
    \E c \in Calls :
        /\ Len(workers) = 2
        /\ call[c].pc = "lock" /\ call[c].i = 2
        /\ workers[1].InUse /\ ~workers[1].Terminated

(***************************************************************************)
(* The executor while it serves requests: Cleanup is not called and the    *)
(* handlers print no lines of their own.  Every goroutine that can take a  *)
(* step takes one, and time passes; a readPipe that can receive a line     *)
(* need not do so before its timer fires.                                  *)
(***************************************************************************)
ServeStep(c) ==
    \/ ScanWorker(c) \/ EndScan(c) \/ Wake(c)
    \/ HandleLock(c) \/ HandleSetInUse(c) \/ HandleWrite(c)
    \/ HandleRecvClosed(c) \/ HandleTimeout(c)
    \/ HandleUnlock(c) \/ HandleClearInUse(c)

ServeNext ==
    \/ Provision
    \/ \E c \in Calls : Invoke(c)
    \/ \E c \in Calls : ScanWorker(c)
    \/ \E c \in Calls : EndScan(c)
    \/ \E c \in Calls : Wake(c)
    \/ \E c \in Calls : HandleLock(c)
    \/ \E c \in Calls : HandleSetInUse(c)
    \/ \E c \in Calls : HandleWrite(c)
    \/ \E c \in Calls : HandleRecv(c)
    \/ \E c \in Calls : HandleRecvClosed(c)
    \/ \E c \in Calls : HandleTimeout(c)
    \/ \E c \in Calls : HandleUnlock(c)
    \/ \E c \in Calls : HandleClearInUse(c)
    \/ Tick
    \/ \E c \in Calls : ReaderScan(c)
    \/ \E c \in Calls : ReaderClose(c)
    \/ \E k \in 1..Len(workers) : ChildExec(k)
    \/ \E k \in 1..Len(workers) : ChildExit(k)

ServeFairness ==
    /\ \A c \in Calls : WF_vars(ServeStep(c))
    /\ \A c \in Calls : WF_vars(ReaderStep(c))
    /\ WF_vars(Tick)

ServeSpec == Init /\ [][ServeNext]_vars /\ ServeFairness

\* call c is in the loop of execWorker
Polling(c) == call[c].pc \in {"scan", "sleep"}

SomeFree == \E k \in 1..Len(workers) : Free(workers[k])

\* C12: a call of execWorker does not stay in its loop while a worker is
\* free: it enters handle on a worker (unless the worker is taken or
\* terminated first), and a call that has entered handle returns
C12_DelegatesWhenFree ==
    \A c \in Calls :
        /\ (Polling(c) /\ SomeFree)
              ~> (~SomeFree \/ \E k \in 1..Len(workers) : InHandle(c, k))
        /\ (\E k \in 1..Len(workers) : InHandle(c, k)) ~> (call[c].pc = "done")

\* a call that found the worker busy in a scan has returned what handle
\* returned
C12_Witness ==
    \E c \in Calls :
        /\ call[c].pc = "done"
        /\ call[c].availableWorkers >= 1
        /\ call[c].ret # StatusServiceUnavailable

\* call c entered handle on a worker, json.Marshal failed and handle went to
\* its return without starting pipeListener
SerializationFailed(c) ==
    /\ call[c].pc \in {"unlock", "clear", "done"}
    /\ call[c].i \in 1..Len(workers)
    /\ reader[c].state = "none"

\* C13: when the event cannot be serialized, handle returns an error and
\* invoke writes the 500 response
C13_SerializationError ==
    \A c \in Calls :
        SerializationFailed(c)
            => /\ call[c].ret.err
               /\ call[c].pc = "done"
                     => call[c].written = Respond(call[c].ret)
                        /\ call[c].written.status = <<500>>

(***************************************************************************)
(* One request and the replies of its handler: besides 201, a status code  *)
(* that is an integer but no HTTP status code, and one that is no integer. *)
(***************************************************************************)
ReplyStatusTexts == StatusTexts \cup {<<"7">>, <<"x">>}

ChildExecReply(k) == ChildRun(k, ReplyStatusTexts)

ReplyNext ==
    \/ Provision
    \/ Invoke(1)
    \/ \E c \in Calls : ScanWorker(c)
    \/ \E c \in Calls : EndScan(c)
    \/ \E c \in Calls : HandleLock(c)
    \/ \E c \in Calls : HandleSetInUse(c)
    \/ \E c \in Calls : HandleWrite(c)
    \/ \E c \in Calls : HandleRecv(c)
    \/ \E c \in Calls : HandleRecvClosed(c)
    \/ \E c \in Calls : HandleTimeout(c)
    \/ \E c \in Calls : HandleUnlock(c)
    \/ \E c \in Calls : HandleClearInUse(c)
    \/ Tick
    \/ \E c \in Calls : ReaderScan(c)
    \/ \E c \in Calls : ReaderClose(c)
    \/ \E k \in 1..Len(workers) : ChildExecReply(k)
    \/ \E k \in 1..Len(workers) : ChildNoise(k)
    \/ \E k \in 1..Len(workers) : ChildExit(k)
    \/ CleanupStart
    \/ TerminateFlag
    \/ TerminateKill
    \/ TerminateWait

ReplySpec == Init /\ [][ReplyNext]_vars

\* the lines hold, from line p on, a reply to call c whose status line does
\* not parse
MalformedReplyAt(ls, p, c) ==
    /\ p + 3 <= Len(ls)
    /\ ls[p] = StartLine(c)
    /\ HasPrefix(ls[p + 1], <<STATUS_TAG>>)
    /\ Atoi(SubSeq(ls[p + 1], 2, Len(ls[p + 1]) - 1)).err
    /\ HasPrefix(ls[p + 2], <<BODY_TAG>>)
    /\ ls[p + 3] = EndLine(c)

\* C14: handle never returns an error, and when the status line of the
\* reply does not parse as an integer it returns 200 and the body of the
\* reply
C14_MalformedStatusKeeps200 ==
    \A c \in Calls :
        /\ ~call[c].ret.err
        /\ (ReadPipeReturned(c) /\ ~call[c].timedOut)
              => \A p \in 1..Len(call[c].lines) :
                    MalformedReplyAt(call[c].lines, p, c)
                       => call[c].ret = [code |-> 200,
                                         body |-> Tail(call[c].lines[p + 2]),
                                         err |-> FALSE]

\* handle has read a reply whose status line does not parse
C14_Witness ==
    \E c \in Calls :
        /\ ReadPipeReturned(c) /\ ~call[c].timedOut
        /\ \E p \in 1..Len(call[c].lines) : MalformedReplyAt(call[c].lines, p, c)

\* C15: a request that the filter turns away gets no response, never
\* enters execWorker, and the step that turns it away changes no worker
C15_FilteredRequestUntouched ==
    [][\A c \in Calls :
          /\ call'[c].pc = "skipped"
                => /\ call'[c].written = NoResponse
                   /\ call'[c].ret = NoResult
                   /\ call'[c].i = 0
                   /\ reader'[c].state = "none"
          /\ (call[c].pc # "skipped" /\ call'[c].pc = "skipped")
                => /\ call[c].pc = "idle"
                   /\ workers' = workers
                   /\ proc' = proc]_vars

\* a request has been turned away while another is in handle on a worker
C15_Witness ==
    \E c, d \in Calls :
        /\ call[c].pc = "skipped"
        /\ \E k \in 1..Len(workers) : InHandle(d, k)

\* C16: a request that passed the filter has nothing written before
\* execWorker returns; then exactly one status and one body are written,
\* those execWorker returned, or 500 "Internal Server Error" when it returned
\* an error
C16_WritesDispatchResult ==
    \A c \in Calls :
        IF call[c].pc = "done"
        THEN /\ Len(call[c].written.status) = 1
             /\ Len(call[c].written.body) = 1
             /\ IF call[c].ret.err
                THEN /\ call[c].written.status[1] = 500
                     /\ call[c].written.body[1] = <<"Internal Server Error">>
                ELSE /\ call[c].written.status[1] = call[c].ret.code
                     /\ call[c].written.body[1] = call[c].ret.body
        ELSE call[c].written = NoResponse

\* one request has been answered 408 and another 503
C16_Witness ==
    \E c, d \in Calls :
        /\ call[c].pc = "done" /\ call[c].ret = StatusRequestTimeout
        /\ call[c].written.status = <<408>>
        /\ call[d].pc = "done" /\ call[d].ret = StatusServiceUnavailable
        /\ call[d].written.status = <<503>>

\* C17: every status code handed to the response writer is an HTTP status
\* code
C17_ValidStatusWritten ==
    \A c \in Calls :
        \A j \in 1..Len(call[c].written.status) :
            call[c].written.status[j] \in 100..599

\* C18: a worker whose process has exited by itself, and whose closed
\* output a Handle call has met and returned from, is terminated
C18_DeadWorkerTerminated ==
    \A k \in 1..Len(workers) :
        (/\ proc[k].exited
         /\ \E c \in Calls :
               /\ call[c].i = k /\ call[c].pc = "done"
               /\ reader[c].state = "closed")
            => workers[k].Terminated

\* readPipe returned to call c because the channel was closed: it did not
\* time out and its last line, if any, does not hold the stop word
ReturnedOnClose(c) ==
    /\ ReadPipeReturned(c)
    /\ ~call[c].timedOut
    /\ reader[c].state = "closed"
    /\ call[c].lines # <<>> => ~StopsRead(call[c].lines[Len(call[c].lines)])

\* C19: a Handle call whose read ended because the process was killed
\* returns an error or 408 "Request Timeout"
C19_KilledEndsInErrorOrTimeout ==
    \A c \in Calls :
        (/\ ReturnedOnClose(c)
         /\ ~proc[call[c].i].alive
         /\ ~proc[call[c].i].exited)
            => (call[c].ret.err \/ call[c].ret = StatusRequestTimeout)

\* C20: when Cleanup has returned, it has returned no error, terminate has
\* set the terminated flag of every worker and has killed and waited for
\* every process, whether or not it returned an error for an earlier worker
C20_CleanupTerminatesAll ==
    cleanup.pc = "done"
        => /\ ~cleanup.err
           /\ cleanup.i = Len(workers)
           /\ \A k \in 1..Len(workers) :
                 /\ workers[k].Terminated
                 /\ ~proc[k].alive
                 /\ proc[k].closed

\* Cleanup has returned from a pool of two workers after terminate returned
\* an error for the first
C20_Witness ==
    /\ cleanup.pc = "done"
    /\ Len(workers) = 2
    /\ 1 \in cleanup.failed

\* the identifiers of the workers of the pool are pairwise distinct
DistinctIDs ==
    \A j, k \in 1..Len(workers) : j # k => workers[j].ID # workers[k].ID

\* C21: after a successful Provision the pool holds the configured number of
\* workers, and their identifiers are pairwise distinct
C21_ProvisionsConfiguredCount ==
    provisionErr = "nil"
        => (Len(workers) = MaxWorkersCount /\ DistinctIDs)

\* C22: a Provision that returns an error adds no worker to the pool and
\* starts no process; the pool and the processes grow only by the one running
\* worker of a Provision that returns nil
C22_FailedProvisionAddsNothing ==
    [][/\ (provisionErr' # provisionErr
              /\ provisionErr' \in {"uri_filter", "worker"})
            => (workers' = workers /\ proc' = proc)
       /\ (Len(workers') # Len(workers) \/ Len(proc') # Len(proc))
            => /\ provisionErr' = "nil"
               /\ Len(workers') = Len(workers) + 1
               /\ Len(proc') = Len(workers')
               /\ proc'[Len(proc')].alive]_vars

\* Provision has returned the error of newWorker and the pool is empty
C22_Witness ==
    /\ provisionErr = "worker"
    /\ workers = <<>>
    /\ proc = <<>>

(***************************************************************************)
(* One request with headers and query parameters of no, one and two        *)
(* values, among them Cookie and Set-Cookie headers.                       *)
(***************************************************************************)
EventNext ==
    \/ Provision
    \/ InvokeRequest(1, EventRequests)
    \/ \E c \in Calls : ScanWorker(c)
    \/ \E c \in Calls : EndScan(c)
    \/ \E c \in Calls : HandleLock(c)
    \/ \E c \in Calls : HandleSetInUse(c)
    \/ \E c \in Calls : HandleWrite(c)
    \/ \E c \in Calls : HandleTimeout(c)
    \/ \E c \in Calls : HandleUnlock(c)
    \/ \E c \in Calls : HandleClearInUse(c)
    \/ Tick

EventSpec == Init /\ [][EventNext]_vars

\* the entry e of a map of the event is the scalar of a list v of one value,
\* or the list v itself
CollapsedFrom(e, v) ==
    IF Len(v) = 1
    THEN e.kind = "string" /\ e.val = v[1]
    ELSE e.kind = "list" /\ e.val = v

\* C23: in the event of a request the header map has the keys of the
\* request's headers but Cookie and Set-Cookie, the query-parameter map has
\* the keys of the request's query, and each entry is a scalar when its key
\* has exactly one value and the list of the values otherwise
C23_EventMaps ==
    \A c \in Calls :
        call[c].pc \notin {"idle", "skipped"}
            => LET header == call[c].req.Header
                   query == call[c].req.Query
                   data == call[c].data
               IN  /\ DOMAIN data.headers = DOMAIN header \ {"Cookie", "Set-Cookie"}
                   /\ \A k \in DOMAIN data.headers :
                         CollapsedFrom(data.headers[k], header[k])
                   /\ DOMAIN data.query_params = DOMAIN query
                   /\ \A k \in DOMAIN data.query_params :
                         CollapsedFrom(data.query_params[k], query[k])

\* a request with a Cookie header, an Accept header of two values and a
\* query parameter of one value has been answered
C23_Witness ==
    \E c \in Calls :
        /\ call[c].pc = "done"
        /\ {"Cookie", "Accept"} \subseteq DOMAIN call[c].req.Header
        /\ Len(call[c].req.Header["Accept"]) = 2
        /\ "q" \in DOMAIN call[c].req.Query
        /\ Len(call[c].req.Query["q"]) = 1

\* C24: every handler statement written to a worker calls the configured
\* function with the event of a request
C24_CallsConfiguredFunction ==
    \A k \in 1..Len(workers) :
        \A n \in 1..Len(workers[k].stdin) :
            workers[k].stdin[n].op = "call"
                => /\ workers[k].stdin[n].fn = EntrypointHandler
                   /\ \E c \in Calls :
                         workers[k].stdin[n].arg = call[c].data.request_id

\* call c is in handle on worker k, past w.InUse = true and before
\* w.mu.Unlock()
Running(c, k) ==
    /\ call[c].i = k
    /\ call[c].pc \in {"write", "reading", "unlock"}

\* C25: the busy flag of a worker is true while a Handle call that has set it
\* holds the worker's lock
C25_BusyWhileLocked ==
    \A k \in 1..Len(workers) :
        (\E c \in Calls : Running(c, k)) => workers[k].InUse

(***************************************************************************)
(* The writes of handle, one at a time: two requests on one worker, whose  *)
(* process is left out; every read ends by its timeout.                    *)
(***************************************************************************)
WriteNext ==
    \/ Provision
    \/ \E c \in Calls : Invoke(c)
    \/ \E c \in Calls : ScanWorker(c)
    \/ \E c \in Calls : EndScan(c)
    \/ \E c \in Calls : Wake(c)
    \/ \E c \in Calls : HandleLock(c)
    \/ \E c \in Calls : HandleSetInUse(c)
    \/ \E c \in Calls : HandleWriteStep(c)
    \/ \E c \in Calls : HandleTimeout(c)
    \/ \E c \in Calls : HandleUnlock(c)
    \/ \E c \in Calls : HandleClearInUse(c)
    \/ Tick

WriteSpec == Init /\ [][WriteNext]_vars

NotImport(stmt) == stmt.op \notin {"import_all", "import"}

\* the statements of an invocation, in the order of the claim
StatementOrder ==
    <<"call", "print_start", "print_status", "print_body", "print_end">>

\* C26: what a worker has been sent after its imports is a sequence of
\* invocations, the last of which may be unfinished: each is a handler call,
\* the print of the start marker with the same rid, the print of the status
\* code, the print of the body and the print of the end marker with that rid
C26_StatementsInOrder ==
    \A k \in 1..Len(workers) :
        LET s == SelectSeq(workers[k].stdin, NotImport)
        IN  \A n \in 1..Len(s) :
               LET first == n - ((n - 1) % 5)
                   j == n - first + 1
               IN  /\ s[n].op = StatementOrder[j]
                   /\ s[first].arg \in {RequestID(c) : c \in Calls}
                   /\ j \in {2, 5} => s[n].arg = s[first].arg

\* a worker has been sent the statements of one invocation and the first
\* three of another, whose call is still writing
C26_Witness ==
    \E k \in 1..Len(workers) : \E c \in Calls :
        /\ Len(SelectSeq(workers[k].stdin, NotImport)) = 8
        /\ call[c].i = k /\ call[c].pc = "write" /\ call[c].sent = 3

\* terminate has gone past its first statement on worker k
TerminateEntered(k) ==
    \/ cleanup.pc \in {"kill", "wait"} /\ cleanup.i = k
    \/ cleanup.pc \in {"flag", "kill", "wait"} /\ k < cleanup.i
    \/ cleanup.pc = "done" /\ k <= cleanup.i

\* C27: the terminated flag of a worker is true from before the kill of
\* terminate on: while the kill and the wait run, after them, and when
\* terminate returned an error
C27_FlagBeforeKill ==
    \A k \in 1..Len(workers) :
        (TerminateEntered(k) \/ k \in cleanup.failed) => workers[k].Terminated

\* terminate has returned an error for a worker
C27_Witness ==
    \E k \in 1..Len(workers) :
        /\ k \in cleanup.failed
        /\ workers[k].Terminated

\* C28: no step resets the terminated flag of a worker, and no worker
\* leaves the pool
C28_TerminatedMonotonic ==
    [][/\ Len(workers') >= Len(workers)
       /\ \A k \in 1..Len(workers) :
             workers[k].Terminated => workers'[k].Terminated]_vars

\* a Handle call is about to clear the busy flag of a terminated worker
C28_Witness ==
    \E c \in Calls :
        /\ call[c].pc = "clear"
        /\ workers[call[c].i].Terminated

\* C29: once the terminated flag of a worker is set no call enters handle on
\* it, none takes its lock and nothing is written to its stdin
C29_NothingAfterTerminated ==
    [][\A k \in 1..Len(workers) :
          workers[k].Terminated
              => /\ workers'[k].stdin = workers[k].stdin
                 /\ \A c \in Calls :
                       call[c].i = k
                          => /\ ~(call[c].pc = "scan" /\ call'[c].pc = "lock")
                             /\ ~(call[c].pc = "lock" /\ call'[c].pc = "locked")]_vars

\* C30: at most one call at a time is inside handle of a worker, the wait
\* for the lock included
C30_OneDelegationPerWorker ==
    \A k \in 1..Len(workers) :
        Cardinality({c \in Calls : InHandle(c, k)}) <= 1

\* the pipeListener goroutine of call c has been started on the stdout of
\* worker k and has not exited: it is in scanner.Scan or in its send
LiveReader(c, k) ==
    /\ call[c].i = k
    /\ reader[c].state = "scan"

\* C31: at most one pipeListener goroutine at a time is live on the output
\* of a worker
C31_OneReaderPerWorker ==
    \A k \in 1..Len(workers) :
        Cardinality({c \in Calls : LiveReader(c, k)}) <= 1

=============================================================================
